---- MODULE Spec2Model ----
(***************************************************************************)
(* A model of akamai/cli-mfa (package amfa): the event export loop         *)
(* EventAPI.pull_events and the identity operations of                     *)
(* IdentityManagementAPI (group_id, enroll_users, import_users_from_csv,   *)
(* list_users), as dispatched by main.run.                                 *)
(*                                                                         *)
(* Python's None is the empty sequence <<>> and a present value v is       *)
(* <<v>>, so that "missing", 0 and "" stay three different values, as      *)
(* they are for the truth tests of the code.                               *)
(***************************************************************************)
EXTENDS Integers, Sequences, FiniteSets

(***************************************************************************)
(* Bounds of the model.                                                    *)
(***************************************************************************)
\* pages the simulated event source serves for one window, at most
MaxPages == 2
\* events in one page of the event source, at most
MaxEvents == 2
\* polling cycles the model follows in tail mode, were line 201 to return
MaxCycles == 2
\* clock ticks per second (resolution of the modelled clock)
TicksPerSec == 2
\* the largest totalPages the user listing reports
MaxTotalPages == 3
\* users in one page of the user listing, at most
MaxUsers == 2
\* groups in one answer of the group listing, at most
MaxMatches == 3
\* rows of the CSV file, at most
MaxRows == 2
\* groups of the tenant before the first import, at most
MaxRemoteGroups == 2
\* import runs that work on one tenant at a time, at most
NumRuns == 2

(***************************************************************************)
(* Program constants.                                                      *)
(***************************************************************************)
\* config.MOST_RECENT_PADDING, seconds
MOST_RECENT_PADDING == 30
\* config.tail_pull_interval, seconds: a name of the module config, which
\* pull_events never reads (it reads an attribute of the MFAConfig object)
tail_pull_interval == 60
\* the default window length of pull_events, minutes
DefaultWindowMinutes == 5
\* requests.codes.ok, the only status BaseAPIHelper accepts
HttpOk == 200
\* the status the modelled provider answers when a call fails
HttpError == 500
\* the clock (seconds) when the process starts
Epoch == 1000

None == <<>>
Some(v) == <<v>>
\* Python's truth test of an optional integer: None and 0 are false
TruthyInt(o) == o # None /\ o[1] # 0
\* Python's truth test of an optional string: None and "" are false
TruthyStr(o) == o # None /\ o[1] # ""

Secs(s) == s * TicksPerSec

(***************************************************************************)
(* Inputs.                                                                 *)
(***************************************************************************)
\* --start / --end (epoch seconds, argparse type=int), None when not given
StartOpts == {None, Some(0), Some(Epoch - 400)}
EndOpts == {None, Some(Epoch - 350), Some(Epoch + 500)}
\* what the clock reads when the process starts: not a whole second, as utcnow()
\* has microseconds while --start and --end are whole seconds
ClockStarts == {Secs(Epoch) + 1}
\* seconds one polling cycle may take to fetch and emit (read by line 201 only
\* once the interval has been looked up)
ElapsedChoices == {0, 20, 70}
\* the cursor the provider hands out with its n-th page of a window
PageToken(n) == IF n = 1 THEN "t1" ELSE IF n = 2 THEN "t2" ELSE "t3"
\* totalPages of a user listing response: missing, or a number of pages
TotalPagesOpts == {None} \cup {Some(n) : n \in 0..MaxTotalPages}
\* group names of the tenant and of the command line ("AB" contains "A": a
\* listing filtered by name "A" may return it as a partial match)
GroupNames == {"A", "AB", "B"}
\* -g/--group of "users invite", None when not given
GroupOpts == {None, Some("A"), Some("B")}
\* usernames and group names the rows of the CSV file are made of
CsvUsernames == {"u1", "U2"}
CsvGroupNames == {"A", "B"}
\* the usernames the tenant may hold before the first import
InitialRemoteUsers == {{}, {"u1"}}
\* bulk create with ignore_conflicts returns every submitted user ("all"), only
\* the users it created ("new"), or every user under the username the provider
\* keeps for it, in lower case ("canonical")
BulkPolicies == {"all", "new", "canonical"}
\* continuation tokens the provider may answer with its n-th page: the attribute
\* missing (None), an empty string, or the page's cursor
ResponseTokens(n) == {None, Some(""), Some(PageToken(n))}

VARIABLES
    cmd,                \* cli_config.command (with the action of "users")
    pc,                 \* where the process is
    exit_code,          \* None while running, else the process exit code
    exc,                \* the uncaught exception that ended the process, or "none"
    cfg,                \* cli_config: start, end, tail, noreceipt
    now,                \* the last clock reading, in ticks
    scan_start,         \* pull_events: scan_start (ticks)
    scan_end,           \* pull_events: scan_end (ticks)
    loop_start,         \* pull_events: loop_start (ticks)
    continuation_token, \* pull_events: continuation_token
    params,             \* pull_events: params {after, before}
    payload,            \* pull_events: payload of the last request (its token)
    scanned_events,     \* pull_events: scanned_events of the last response
    ev_idx,             \* position of the for loop in scanned_events
    emitted,            \* events printed on stdout in the current cycle
    served,             \* history: events the source returned in the current cycle
    pages,              \* history: size of each page returned in the current cycle
    cycle,              \* history: number of the current polling cycle
    prev_params,        \* history: params of the previous polling cycle
    wait,               \* pull_events: wait, the duration passed to time.sleep
    sleeps,             \* history: number of sleeps performed
    ev_requests,        \* history: the page requests of pull_events and their answers
    api_errors,         \* history: number of non-success responses received
    \* IdentityManagementAPI.list_users
    page,               \* list_users: page
    total_page,         \* list_users: total_page
    total_users,        \* list_users: total_users
    lu_out,             \* lines list_users printed on stdout
    lu_requests,        \* history: the page numbers requested
    lu_totals,          \* history: the totalPages values of the responses
    lu_reported,        \* history: totalPages of each response, in order
    lu_served,          \* history: the users the responses returned, in order
    \* IdentityManagementAPI.group_id and enroll_users
    matches,            \* group_id: matches, the page of the group listing
    gid_answered,       \* history: the group listing was answered
    group_id,           \* enroll_users: group_id
    stderr,             \* lines printed on the error stream
    enroll_requests,    \* history: payloads posted to email/enroll_users
    \* the tenant, as import_users_from_csv sees and changes it
    remote_groups,      \* the groups of the tenant, in the order of their creation
    remote_users,       \* the usernames of the tenant
    remote_assoc,       \* the user-to-group associations of the tenant
    bulk_policy,        \* which users the bulk create returns, see BulkPolicies
    \* IdentityManagementAPI.import_users_from_csv
    csv,                \* the rows of the CSV file
    run,                \* history: 1 in the first import run, 2 in the second
    new_users,          \* import: new_users
    scanned_groups,     \* import: scanned_groups
    user_groupname_map, \* import: user_groupname_map
    groups_map,         \* import: groups_map, id to name
    reverse_groups_map, \* import: reverse_groups_map, name to id
    pending,            \* the groups the for loop of line 315 has yet to visit
    count_group_added,  \* import: count_group_added
    count_group_existing, \* import: count_group_existing
    new_users_response, \* import: result of new_users_response
    assoc_idx,          \* position of the for loop of line 333
    imp_out,            \* lines the import printed on stdout
    listed,             \* history: the page the group listing returned
    create_calls,       \* history: the group names of the create-group calls
    assoc_calls,        \* history: the association calls, user ids and group id
    calls,              \* history: the remote calls of the import, in order
    prev_run,           \* history: the tenant as the previous run left it
    \* import runs of several processes against one tenant
    writers,            \* per process: its place and its locals of lines 310-325
    single_writer,      \* TRUE when a run starts only once every other has ended
    edgerc,             \* the names of the sections of the credentials file
    stdout              \* what main.run itself printed on the output stream

conf_vars == <<edgerc, stdout>>

conc_vars == <<writers, single_writer>>

lu_vars == <<page, total_page, total_users, lu_out, lu_requests, lu_totals, lu_reported,
            lu_served>>

inv_vars == <<matches, gid_answered, group_id, enroll_requests>>

tenant_vars == <<remote_groups, remote_users, remote_assoc, bulk_policy>>

imp_vars == <<csv, run, new_users, scanned_groups, user_groupname_map, groups_map,
              reverse_groups_map, pending, count_group_added, count_group_existing,
              new_users_response, assoc_idx, imp_out, listed, create_calls, assoc_calls,
              calls, prev_run>>

ev_vars == <<now, scan_start, scan_end, loop_start, continuation_token, params,
             payload, scanned_events, ev_idx, emitted, served, pages, cycle,
             prev_params, wait, sleeps, ev_requests>>

vars == <<cmd, conf_vars, conc_vars, pc, exit_code, exc, api_errors, cfg, stderr, ev_vars, lu_vars, inv_vars,
          tenant_vars, imp_vars>>

(***************************************************************************)
(* datetime.isoformat(): the seconds, and the fraction only when it is not *)
(* zero (Python prints no ".ffffff" for microsecond = 0).                  *)
(***************************************************************************)
isoformat(t) ==
    IF t % TicksPerSec = 0
    THEN <<t \div TicksPerSec>>
    ELSE <<t \div TicksPerSec, t % TicksPerSec>>

\* datetime.utcfromtimestamp(epoch seconds)
utcfromtimestamp(s) == Secs(s)

\* An MFA event as the source returns it: an id, and a receipt or none.
Event(id, with_receipt) ==
    IF with_receipt THEN [id |-> id, receipt |-> 10 * id] ELSE [id |-> id]

\* The process ends by an uncaught exception: Python exits with code 1.
\* a slip: the exception is swallowed and the process goes on
Raise_ignore(kind) ==
    /\ exc' = kind
    /\ UNCHANGED <<conc_vars, pc, exit_code>>

Raise(kind) ==
    /\ pc' = "crashed"
    /\ exc' = kind
    /\ exit_code' = Some(1)

(***************************************************************************)
(* EventAPI.pull_events                                                    *)
(***************************************************************************)
InitialScanEnd(c, t) ==
    IF TruthyInt(c.end) THEN utcfromtimestamp(c.end[1]) ELSE t - Secs(MOST_RECENT_PADDING)

InitialScanStart(c, t) ==
    IF TruthyInt(c.start)
    THEN utcfromtimestamp(c.start[1])
    ELSE (t - Secs(MOST_RECENT_PADDING)) - Secs(60 * DefaultWindowMinutes)

\* lines 165-172: the initial window
EventStart ==
    /\ cmd = "event"
    /\ pc = "start"
    /\ scan_end' = InitialScanEnd(cfg, now)
    /\ scan_start' = InitialScanStart(cfg, now)
    /\ pc' = "cycle"
    /\ UNCHANGED <<conc_vars, lu_vars, inv_vars, tenant_vars, imp_vars, stderr, cmd, conf_vars, ev_requests, exit_code, exc, api_errors, cfg, now, loop_start,
                   continuation_token, params, payload, scanned_events, ev_idx,
                   emitted, served, pages, cycle, prev_params, wait, sleeps>>

WindowParams(s, e) == [after |-> isoformat(s), before |-> isoformat(e)]

\* lines 174-180: a polling cycle begins
EventCycle ==
    /\ cmd = "event"
    /\ pc = "cycle"
    /\ loop_start' = now
    /\ continuation_token' = None
    /\ params' = WindowParams(scan_start, scan_end)
    /\ prev_params' = IF cycle = 0 THEN None ELSE Some(params)
    /\ cycle' = cycle + 1
    /\ emitted' = <<>>
    /\ served' = <<>>
    /\ pages' = <<>>
    /\ pc' = "post"
    /\ UNCHANGED <<conc_vars, lu_vars, inv_vars, tenant_vars, imp_vars, stderr, cmd, conf_vars, ev_requests, exit_code, exc, api_errors, cfg, now, scan_start, scan_end,
                   payload, scanned_events, ev_idx, wait, sleeps>>

\* a slip of lines 183-185: the token is never sent
RequestPayload_none(tok) == None

\* lines 183-185: the request body
RequestPayload(tok) == IF TruthyStr(tok) THEN tok ELSE None

\* The pages a finite source serves for one window: the last one has no token.
SourceTokens(n_served) ==
    IF n_served + 1 >= MaxPages THEN {None} ELSE ResponseTokens(n_served + 1)

\* line 186: one POST of the event API as the provider sees it, with the
\* continuation token of its answer (None when the answer has none or failed)
Request(c, prm, body, status, tok) ==
    [cycle |-> c, params |-> prm, payload |-> body, status |-> status, token |-> tok]

\* lines 183-189 and BaseAPIHelper.post (52-57): one page request and its response
EventPost ==
    /\ cmd = "event"
    /\ pc = "post"
    /\ payload' = RequestPayload(continuation_token)
    /\ \E status \in {HttpOk, HttpError} :
         IF status # HttpOk
         THEN /\ Raise("APIError")
              /\ api_errors' = api_errors + 1
              /\ ev_requests' = Append(ev_requests, Request(cycle, params, payload', status, None))
              /\ UNCHANGED <<continuation_token, scanned_events, ev_idx, served, pages>>
         ELSE \E tok \in SourceTokens(Len(pages)), k \in 0..MaxEvents :
              \E rc \in [1..k -> BOOLEAN] :
                LET data == [i \in 1..k |-> Event(Len(served) + i, rc[i])] IN
                /\ continuation_token' = tok
                /\ ev_requests' = Append(ev_requests, Request(cycle, params, payload', status, tok))
                /\ scanned_events' = data
                /\ ev_idx' = 1
                /\ served' = served \o data
                /\ pages' = Append(pages, k)
                /\ pc' = "emit"
                /\ UNCHANGED <<exit_code, exc, api_errors>>
    /\ UNCHANGED <<conc_vars, lu_vars, inv_vars, tenant_vars, imp_vars, stderr, cmd, conf_vars, cfg, now, scan_start, scan_end, loop_start, params, emitted,
                   cycle, prev_params, wait, sleeps>>

\* dict.pop('receipt'): the event without the key
PopReceipt(e) == [f \in DOMAIN e \ {"receipt"} |-> e[f]]

\* a slip of lines 192-193: the receipt is never removed
EmittedRecord_keep(e, noreceipt) == e

\* lines 192-194: the record printed for an event
EmittedRecord(e, noreceipt) == IF noreceipt THEN PopReceipt(e) ELSE e

\* lines 191-195: one iteration of the for loop over scanned_events
EventEmit ==
    /\ cmd = "event"
    /\ pc = "emit"
    /\ ev_idx <= Len(scanned_events)
    /\ LET e == scanned_events[ev_idx] IN
       IF cfg.noreceipt /\ "receipt" \notin DOMAIN e
       THEN \* mfa_event.pop('receipt') without a default raises KeyError
            /\ Raise("KeyError")
            /\ UNCHANGED <<emitted, ev_idx>>
       ELSE /\ emitted' = Append(emitted, EmittedRecord(e, cfg.noreceipt))
            /\ ev_idx' = ev_idx + 1
            /\ UNCHANGED <<pc, exc, exit_code>>
    /\ UNCHANGED <<conc_vars, lu_vars, inv_vars, tenant_vars, imp_vars, stderr, cmd, conf_vars, ev_requests, api_errors, cfg, now, scan_start, scan_end, loop_start,
                   continuation_token, params, payload, scanned_events, served, pages,
                   cycle, prev_params, wait, sleeps>>

\* lines 197-198: the page loop goes on while the token is true
EventPageEnd ==
    /\ cmd = "event"
    /\ pc = "emit"
    /\ ev_idx > Len(scanned_events)
    /\ pc' = IF ~TruthyStr(continuation_token) THEN "cycle_end" ELSE "post"
    /\ UNCHANGED <<conc_vars, lu_vars, inv_vars, tenant_vars, imp_vars, stderr, cmd, conf_vars, exit_code, exc, api_errors, cfg, ev_vars>>

\* line 204: the next window starts where the previous one ended
NextScanStart(old_start, old_end) == old_end

\* line 205: the next window ends MOST_RECENT_PADDING before the clock
NextScanEnd(t) == t - Secs(MOST_RECENT_PADDING)

\* MFAConfig.__init__: the attributes an MFAConfig object has are the argparse
\* options, the CONFIG_KEYS of the credentials file and the four set at the top
\* of __init__; the record of the command's configuration holds them
HasAttr(c, name) == name \in DOMAIN c

\* line 201: the time left of the pull interval
TailWait(interval, t, started) == Secs(interval) - (t - started)

\* lines 200-205: the tail branch of the outer loop. Line 201 reads
\* self.config.tail_pull_interval, an attribute of the MFAConfig object: the name
\* is bound at module level of config.py only, so the lookup raises
\* AttributeError. With the attribute the branch would sleep for the rest of the
\* interval, advance the window and repeat the outer loop.
EventTail ==
    /\ cmd = "event"
    /\ pc = "cycle_end"
    /\ cfg.tail
    /\ IF ~HasAttr(cfg, "tail_pull_interval")
       THEN /\ Raise("AttributeError")
            /\ UNCHANGED <<wait, now, sleeps, scan_start, scan_end>>
       ELSE /\ cycle < MaxCycles
            /\ \E el \in ElapsedChoices :
                 LET t == now + Secs(el)
                     w == TailWait(cfg.tail_pull_interval, t, loop_start)
                 IN  /\ wait' = Some(w)
                     /\ IF w < 0
                        THEN \* time.sleep raises ValueError for a negative duration
                             /\ Raise("ValueError")
                             /\ now' = t
                             /\ UNCHANGED <<sleeps, scan_start, scan_end>>
                        ELSE /\ now' = t + w
                             /\ sleeps' = sleeps + 1
                             /\ scan_start' = NextScanStart(scan_start, scan_end)
                             /\ scan_end' = NextScanEnd(t + w)
                             /\ pc' = "cycle"
                             /\ UNCHANGED <<exc, exit_code>>
    /\ UNCHANGED <<conc_vars, lu_vars, inv_vars, tenant_vars, imp_vars, stderr, cmd, conf_vars, ev_requests, api_errors, cfg, loop_start,
                   continuation_token, params, payload, scanned_events, ev_idx,
                   emitted, served, pages, cycle, prev_params>>

\* lines 206-207 and the return to main.run: without tail the command completes
EventFinish ==
    /\ cmd = "event"
    /\ pc = "cycle_end"
    /\ ~cfg.tail
    /\ pc' = "done"
    /\ exit_code' = Some(0)
    /\ UNCHANGED <<conc_vars, lu_vars, inv_vars, tenant_vars, imp_vars, stderr, cmd, conf_vars, exc, api_errors, cfg, ev_vars>>

EventConfigs ==
    [start : StartOpts, end : EndOpts, tail : BOOLEAN, noreceipt : BOOLEAN]

EventIdle ==
    /\ scan_start = 0
    /\ scan_end = 0
    /\ loop_start = 0
    /\ continuation_token = None
    /\ params = None
    /\ payload = None
    /\ scanned_events = <<>>
    /\ ev_idx = 1
    /\ emitted = <<>>
    /\ served = <<>>
    /\ pages = <<>>
    /\ cycle = 0
    /\ prev_params = None
    /\ wait = None
    /\ sleeps = 0
    /\ ev_requests = <<>>

\* the credentials file held the selected section and run() printed nothing
ConfIdle ==
    /\ edgerc = {"default"}
    /\ stdout = <<>>

ProcessStart ==
    /\ ConfIdle
    /\ pc = "start"
    /\ exit_code = None
    /\ exc = "none"
    /\ api_errors = 0
    /\ stderr = <<>>
    /\ now \in ClockStarts

ListIdle ==
    /\ page = 1
    /\ total_page = None
    /\ total_users = 0
    /\ lu_out = <<>>
    /\ lu_requests = <<>>
    /\ lu_totals = {}
    /\ lu_reported = <<>>
    /\ lu_served = <<>>

EmptyMap == [x \in {} |-> x]

TenantIdle ==
    /\ remote_groups = <<>>
    /\ remote_users = {}
    /\ remote_assoc = {}
    /\ bulk_policy = "all"

ImportLocalsIdle ==
    /\ new_users = <<>>
    /\ scanned_groups = {}
    /\ user_groupname_map = EmptyMap
    /\ groups_map = EmptyMap
    /\ reverse_groups_map = EmptyMap
    /\ pending = {}
    /\ count_group_added = 0
    /\ count_group_existing = 0
    /\ new_users_response = <<>>
    /\ assoc_idx = 1
    /\ imp_out = <<>>
    /\ listed = <<>>
    /\ create_calls = <<>>
    /\ assoc_calls = <<>>
    /\ calls = <<>>

\* no concurrent import is under way
ConcIdle ==
    /\ writers = <<>>
    /\ single_writer = TRUE

ImportIdle ==
    /\ ConcIdle
    /\ csv = <<>>
    /\ run = 1
    /\ prev_run = None
    /\ ImportLocalsIdle

InviteIdle ==
    /\ matches = <<>>
    /\ gid_answered = FALSE
    /\ group_id = None
    /\ enroll_requests = <<>>

InitEvent ==
    /\ cmd = "event"
    /\ ProcessStart
    /\ cfg \in EventConfigs
    /\ EventIdle
    /\ ListIdle
    /\ InviteIdle
    /\ TenantIdle
    /\ ImportIdle

NextEvent ==
    \/ EventStart
    \/ EventCycle
    \/ EventPost
    \/ EventEmit
    \/ EventPageEnd
    \/ EventTail
    \/ EventFinish

SpecEvent == InitEvent /\ [][NextEvent]_vars

(***************************************************************************)
(* BaseAPIHelper.get (lines 41-50): a non-success status prints two lines  *)
(* on the error stream and exits with code 1.                              *)
(***************************************************************************)
\* a slip of lines 43-48: the failed GET is reported but the process goes on
GetFailed_ignore ==
    /\ api_errors' = api_errors + 1
    /\ stderr' = stderr \o <<"FATAL: API call", "response text">>
    /\ UNCHANGED <<conc_vars, pc, exit_code, exc>>

GetFailed ==
    /\ api_errors' = api_errors + 1
    /\ stderr' = stderr \o <<"FATAL: API call", "response text">>
    /\ pc' = "exited"
    /\ exit_code' = Some(1)
    /\ UNCHANGED exc

(***************************************************************************)
(* IdentityManagementAPI.list_users                                        *)
(***************************************************************************)
\* a user record of the listing
User(n) == [userId |-> n, username |-> n + 100, userStatus |-> "active"]

\* line 373: the flat projection of a user record
FlatLine(u) == <<u.userId, u.username, u.userStatus>>

\* lines 370-373: the line printed for a user
UserLine(u, json_fmt) == IF json_fmt THEN <<"json", u>> ELSE FlatLine(u)

\* a slip of line 363: the loop ends after the first response
ListContinues_once(p, total) == total = None

\* a slip of line 363: the last page is not requested
ListContinues_short(p, total) == IF total = None THEN TRUE ELSE p < total[1]

\* line 363: the loop condition
ListContinues(p, total) == IF total = None THEN TRUE ELSE p <= total[1]

\* line 367: totalPages of the response, 1 when it has none
TotalPagesOf(tp) == IF tp = None THEN 1 ELSE tp[1]

\* a slip of line 374: the pages are counted, not the users
CountAfter_pages(total, k) == total + 1

\* line 374: total_users after the k users of a page
CountAfter(total, k) == total + k

\* main.run line 47 calls list_users() without argument, whatever --json is:
\* json_fmt takes its default, False (line 354)
JsonFmtPassed(c) == FALSE

\* lines 363-374: one page of the listing is requested and printed
ListPage ==
    /\ cmd = "users_list"
    /\ pc = "start"
    /\ ListContinues(page, total_page)
    /\ lu_requests' = Append(lu_requests, page)
    /\ \E status \in {HttpOk, HttpError} :
         IF status # HttpOk
         THEN /\ GetFailed
              /\ UNCHANGED <<page, total_page, total_users, lu_out, lu_totals, lu_reported,
                             lu_served>>
         ELSE \E tp \in TotalPagesOpts, k \in 0..MaxUsers :
                LET users == [i \in 1..k |-> User(Len(lu_served) + i)] IN
                /\ total_page' = Some(TotalPagesOf(tp))
                /\ page' = page + 1
                /\ lu_out' = lu_out \o [i \in 1..k |-> UserLine(users[i], JsonFmtPassed(cfg))]
                /\ total_users' = CountAfter(total_users, k)
                /\ lu_totals' = lu_totals \cup {tp}
                /\ lu_reported' = Append(lu_reported, tp)
                /\ lu_served' = lu_served \o users
                /\ UNCHANGED <<pc, exit_code, exc, api_errors, stderr>>
    /\ UNCHANGED <<conc_vars, ev_vars, inv_vars, tenant_vars, imp_vars, cmd, conf_vars, cfg>>

\* lines 363 and 376: the loop ends and the total is printed
ListFinish ==
    /\ cmd = "users_list"
    /\ pc = "start"
    /\ ~ListContinues(page, total_page)
    /\ lu_out' = Append(lu_out, <<"# Total users exported", total_users>>)
    /\ pc' = "done"
    /\ exit_code' = Some(0)
    /\ UNCHANGED <<conc_vars, ev_vars, inv_vars, tenant_vars, imp_vars, cmd, conf_vars, cfg, exc, api_errors, stderr, page,
                   total_page, total_users, lu_requests, lu_totals, lu_reported, lu_served>>

\* --json of "users list" (store_true)
ListConfigs == [json : BOOLEAN]

InitList ==
    /\ cmd = "users_list"
    /\ ProcessStart
    /\ cfg \in ListConfigs
    /\ EventIdle
    /\ ListIdle
    /\ InviteIdle
    /\ TenantIdle
    /\ ImportIdle

NextList ==
    \/ ListPage
    \/ ListFinish

SpecList == InitList /\ [][NextList]_vars

(***************************************************************************)
(* IdentityManagementAPI.group_id and enroll_users                         *)
(***************************************************************************)
\* the answers of the group listing: up to MaxMatches groups, each with an id of
\* its own and a name
MatchLists ==
    UNION {[1..n -> GroupNames] : n \in 0..MaxMatches}

GroupPage(names) == [i \in 1..Len(names) |-> [id |-> 10 + i, name |-> names[i]]]

\* a slip of lines 254-259: the last group of that name wins, none is refused
RECURSIVE GroupIdScan_last(_, _, _, _)
GroupIdScan_last(ms, name, i, gid) ==
    IF i > Len(ms)
    THEN [raised |-> FALSE, id |-> gid]
    ELSE IF ms[i].name = name
         THEN GroupIdScan_last(ms, name, i + 1, Some(ms[i].id))
         ELSE GroupIdScan_last(ms, name, i + 1, gid)

\* lines 253-260: the for loop of group_id from position i on, group_id being gid
RECURSIVE GroupIdScan(_, _, _, _)
GroupIdScan(ms, name, i, gid) ==
    IF i > Len(ms)
    THEN [raised |-> FALSE, id |-> gid]
    ELSE IF ms[i].name = name
         THEN IF gid = None
              THEN GroupIdScan(ms, name, i + 1, Some(ms[i].id))
              ELSE [raised |-> TRUE, id |-> None]
         ELSE GroupIdScan(ms, name, i + 1, gid)

\* lines 341-342: the group must be a string
InviteCheck ==
    /\ cmd = "users_invite"
    /\ pc = "start"
    /\ IF cfg.group = None
       THEN /\ Raise("ArgumentError")
       ELSE /\ pc' = "lookup"
            /\ UNCHANGED <<exit_code, exc>>
    /\ UNCHANGED <<conc_vars, ev_vars, lu_vars, tenant_vars, imp_vars, inv_vars, cmd, conf_vars, cfg, api_errors, stderr>>

\* line 344 and group_id (lines 251-260): the group is looked up by name
InviteLookup ==
    /\ cmd = "users_invite"
    /\ pc = "lookup"
    /\ \E status \in {HttpOk, HttpError} :
         IF status # HttpOk
         THEN /\ GetFailed
              /\ UNCHANGED <<matches, gid_answered, group_id>>
         ELSE \E names \in MatchLists :
                LET r == GroupIdScan(GroupPage(names), cfg.group[1], 1, None) IN
                /\ matches' = GroupPage(names)
                /\ gid_answered' = TRUE
                /\ IF r.raised
                   THEN /\ Raise("Ambiguity")
                        /\ UNCHANGED group_id
                   ELSE /\ group_id' = r.id
                        /\ pc' = "resolved"
                        /\ UNCHANGED <<exit_code, exc>>
                /\ UNCHANGED <<api_errors, stderr>>
    /\ UNCHANGED <<conc_vars, ev_vars, lu_vars, tenant_vars, imp_vars, enroll_requests, cmd, conf_vars, cfg>>

\* lines 345-347: an unknown group is reported and the process exits with 2
InviteNotFound ==
    /\ cmd = "users_invite"
    /\ pc = "resolved"
    /\ group_id = None
    /\ stderr' = Append(stderr, <<"Group not found", cfg.group[1]>>)
    /\ pc' = "exited"
    /\ exit_code' = Some(2)
    /\ UNCHANGED <<conc_vars, ev_vars, lu_vars, tenant_vars, imp_vars, inv_vars, cmd, conf_vars, cfg, exc, api_errors>>

\* a slip of line 348: enrolled users are invited again
EnrollPayload_everyone(gid) == [exclude_enrolled_users |-> FALSE, groups |-> <<gid>>]

\* lines 348-349: the payload of the enrollment request
EnrollPayload(gid) == [exclude_enrolled_users |-> TRUE, groups |-> <<gid>>]

\* lines 348-352 and BaseAPIHelper.post: the enrollment request
InviteSend ==
    /\ cmd = "users_invite"
    /\ pc = "resolved"
    /\ group_id # None
    /\ enroll_requests' = Append(enroll_requests, EnrollPayload(group_id[1]))
    /\ \E status \in {HttpOk, HttpError} :
         IF status # HttpOk
         THEN /\ Raise("APIError")
              /\ api_errors' = api_errors + 1
         ELSE /\ pc' = "done"
              /\ exit_code' = Some(0)
              /\ UNCHANGED <<exc, api_errors>>
    /\ UNCHANGED <<conc_vars, ev_vars, lu_vars, tenant_vars, imp_vars, matches, gid_answered, group_id, cmd, conf_vars, cfg, stderr>>

InviteConfigs == [group : GroupOpts]

InitInvite ==
    /\ cmd = "users_invite"
    /\ ProcessStart
    /\ cfg \in InviteConfigs
    /\ EventIdle
    /\ ListIdle
    /\ InviteIdle
    /\ TenantIdle
    /\ ImportIdle

NextInvite ==
    \/ InviteCheck
    \/ InviteLookup
    \/ InviteNotFound
    \/ InviteSend

SpecInvite == InitInvite /\ [][NextInvite]_vars

(***************************************************************************)
(* IdentityManagementAPI.import_users_from_csv                             *)
(***************************************************************************)
\* one remote call of the import as the history keeps it: the operation and
\* whether the provider answered HTTP 200
Call(op, status) == [op |-> op, ok |-> status = HttpOk]

\* a row of the file: email, first name, last name, username, group
Row(u, g) == <<u, "First", "Last", u, g>>

\* a row that lacks the group column
ShortRow(u) == <<u, "First", "Last", u>>

CsvRows == {Row(u, g) : u \in CsvUsernames, g \in CsvGroupNames} \cup {ShortRow("u1")}

CsvFiles == UNION {[1..n -> CsvRows] : n \in 0..MaxRows}

\* -f/--file: the path of a file that holds the rows, or of no file
CsvPaths == {"users.csv", "csv_file_not_exist"}

\* a slip of line 294: every path is taken to name a file
FileExists_always(path) == TRUE

\* line 294: open(csv_filename) finds the file
FileExists(path) == path = "users.csv"

\* a slip of line 298: the loop reads the first row only
DataRows_first(file, ignore_header) ==
    IF ignore_header
    THEN (IF Len(file) >= 2 THEN <<file[2]>> ELSE <<>>)
    ELSE (IF Len(file) >= 1 THEN <<file[1]>> ELSE <<>>)

\* line 295-298: the rows the for loop reads, the first one skipped as a header
DataRows(file, ignore_header) == IF ignore_header THEN Tail(file) ELSE file

\* lines 299-306: row[4] of a row of fewer than five columns raises IndexError
Malformed(rows) == \E i \in 1..Len(rows) : Len(rows[i]) < 5

\* lines 299-304: the user built from a row (the default fullname format)
NewUser(row) ==
    [full_name |-> <<row[2], " ", row[3]>>, last_name |-> row[3], email |-> row[1],
     username |-> row[4]]

\* line 305: the group of the last row of each username
UserGroupnameMap(rows) ==
    [u \in {rows[i][4] : i \in 1..Len(rows)} |->
       LET last == CHOOSE i \in 1..Len(rows) :
                     /\ rows[i][4] = u
                     /\ \A j \in 1..Len(rows) : rows[j][4] = u => j <= i
       IN  rows[last][5]]

\* line 306: the set of the group names of the rows
ScannedGroups(rows) == {rows[i][5] : i \in 1..Len(rows)}

\* lines 289-307: the file is parsed
ImportParse ==
    /\ cmd = "importusers"
    /\ pc = "start"
    /\ IF ~FileExists(cfg.file)
       THEN \* open() of a path that is no file raises FileNotFoundError
            /\ Raise("FileNotFoundError")
            /\ UNCHANGED <<new_users, user_groupname_map, scanned_groups>>
       ELSE IF cfg.ignore_header /\ csv = <<>>
       THEN \* next(reader) on a file without a row raises StopIteration
            /\ Raise("StopIteration")
            /\ UNCHANGED <<new_users, user_groupname_map, scanned_groups>>
       ELSE IF Malformed(DataRows(csv, cfg.ignore_header))
       THEN /\ Raise("IndexError")
            /\ UNCHANGED <<new_users, user_groupname_map, scanned_groups>>
       ELSE LET rows == DataRows(csv, cfg.ignore_header) IN
            /\ new_users' = [i \in 1..Len(rows) |-> NewUser(rows[i])]
            /\ user_groupname_map' = UserGroupnameMap(rows)
            /\ scanned_groups' = ScannedGroups(rows)
            /\ pc' = "list_groups"
            /\ UNCHANGED <<exit_code, exc>>
    /\ UNCHANGED <<conc_vars, ev_vars, lu_vars, inv_vars, tenant_vars, cmd, conf_vars, cfg, api_errors, stderr,
                   csv, run, groups_map, reverse_groups_map, pending, count_group_added,
                   count_group_existing, new_users_response, assoc_idx, imp_out, listed,
                   create_calls, assoc_calls, calls, prev_run>>

\* a slip of line 313: the listing is not taken into the catalog
GroupsMap_empty(groups) == EmptyMap

\* line 313: groups_map, id to name
GroupsMap(groups) ==
    [id \in {groups[i].id : i \in 1..Len(groups)} |->
       LET last == CHOOSE i \in 1..Len(groups) :
                     /\ groups[i].id = id
                     /\ \A j \in 1..Len(groups) : groups[j].id = id => j <= i
       IN  groups[last].name]

\* line 314: reverse_groups_map, name to id; the last group of a name wins
ReverseGroupsMap(groups) ==
    [name \in {groups[i].name : i \in 1..Len(groups)} |->
       LET last == CHOOSE i \in 1..Len(groups) :
                     /\ groups[i].name = name
                     /\ \A j \in 1..Len(groups) : groups[j].name = name => j <= i
       IN  groups[last].id]

\* lines 310-314 and list_groups (233-237): the groups of the tenant are listed
ImportListGroups ==
    /\ cmd = "importusers"
    /\ pc = "list_groups"
    /\ \E status \in {HttpOk, HttpError} :
         /\ calls' = Append(calls, Call("list_groups", status))
         /\ IF status # HttpOk
            THEN /\ GetFailed
                 /\ UNCHANGED <<groups_map, reverse_groups_map, pending, listed,
                                count_group_added, count_group_existing>>
            ELSE /\ listed' = remote_groups
                 /\ groups_map' = GroupsMap(remote_groups)
                 /\ reverse_groups_map' = ReverseGroupsMap(remote_groups)
                 /\ count_group_added' = 0
                 /\ count_group_existing' = 0
                 /\ pending' = scanned_groups
                 /\ pc' = "groups"
                 /\ UNCHANGED <<exit_code, exc, api_errors, stderr>>
    /\ UNCHANGED <<conc_vars, ev_vars, lu_vars, inv_vars, tenant_vars, cmd, conf_vars, cfg, csv, run, new_users,
                   scanned_groups, user_groupname_map, new_users_response, assoc_idx,
                   imp_out, create_calls, assoc_calls, prev_run>>

\* a slip of line 316: no group is taken as present
GroupKnown_never(g, gmap) == FALSE

\* line 316: g in groups_map.values()
GroupKnown(g, gmap) == \E id \in DOMAIN gmap : gmap[id] = g

\* a dict with key k set to v
DictSet(d, k, v) == [x \in DOMAIN d \cup {k} |-> IF x = k THEN v ELSE d[x]]

\* the id the provider gives a group it creates
FreshGroupId(groups) == Len(groups) + 1

\* lines 315-323 and create_group (262-268): one group of the file is visited, in
\* the order a Python set happens to give
ImportGroup ==
    /\ cmd = "importusers"
    /\ pc = "groups"
    /\ \E g \in pending :
         /\ pending' = pending \ {g}
         /\ IF ~GroupKnown(g, groups_map)
            THEN /\ create_calls' = Append(create_calls, g)
                 /\ \E status \in {HttpOk, HttpError} :
                      /\ calls' = Append(calls, Call("create_group", status))
                      /\ IF status # HttpOk
                         THEN /\ Raise("APIError")
                              /\ api_errors' = api_errors + 1
                              /\ UNCHANGED <<remote_groups, groups_map, reverse_groups_map,
                                             count_group_added>>
                         ELSE LET r == [id |-> FreshGroupId(remote_groups), name |-> g] IN
                              /\ remote_groups' = Append(remote_groups, r)
                              /\ groups_map' = DictSet(groups_map, r.id, r.name)
                              /\ reverse_groups_map' = DictSet(reverse_groups_map, r.name, r.id)
                              /\ count_group_added' = count_group_added + 1
                              /\ UNCHANGED <<pc, exit_code, exc, api_errors>>
                 /\ UNCHANGED count_group_existing
            ELSE /\ count_group_existing' = count_group_existing + 1
                 /\ UNCHANGED <<pc, exit_code, exc, api_errors, remote_groups, groups_map,
                                reverse_groups_map, count_group_added, create_calls, calls>>
    /\ UNCHANGED <<conc_vars, ev_vars, lu_vars, inv_vars, remote_users, remote_assoc, bulk_policy,
                   cmd, conf_vars, cfg, stderr, csv, run, new_users, scanned_groups,
                   user_groupname_map, new_users_response, assoc_idx, imp_out, listed,
                   assoc_calls, prev_run>>

\* a slip of line 315: the loop over the groups of the file is left at once
GroupsPhaseDone_early(p) == TRUE

\* line 315: the for loop has visited every group of the file
GroupsPhaseDone(p) == p = {}

\* lines 324-325: the counts are printed
ImportReport ==
    /\ cmd = "importusers"
    /\ pc = "groups"
    /\ GroupsPhaseDone(pending)
    /\ imp_out' = Append(imp_out, [added |-> count_group_added,
                                   existing |-> count_group_existing])
    /\ pc' = "create_users"
    /\ UNCHANGED <<conc_vars, ev_vars, lu_vars, inv_vars, tenant_vars, cmd, conf_vars, cfg, exit_code, exc,
                   api_errors, stderr, csv, run, new_users, scanned_groups,
                   user_groupname_map, groups_map, reverse_groups_map, pending,
                   count_group_added, count_group_existing, new_users_response,
                   assoc_idx, listed, create_calls, assoc_calls, calls, prev_run>>

\* the username in lower case
Canon(u) == IF u = "U2" THEN "u2" ELSE u

\* the id the provider gives the user of a username
UserId(u) == <<"id", u>>

\* the usernames of a list of users, each once, in the order of their first row
RECURSIVE DistinctUsernames(_, _)
DistinctUsernames(users, seen) ==
    IF users = <<>>
    THEN <<>>
    ELSE IF Head(users).username \in seen
         THEN DistinctUsernames(Tail(users), seen)
         ELSE <<Head(users).username>>
                \o DistinctUsernames(Tail(users), seen \cup {Head(users).username})

\* a slip of the provider's answer: the users the tenant did not hold, whatever
\* the policy
BulkResult_fresh(policy, users, held) ==
    LET names == DistinctUsernames(users, held) IN
    [i \in 1..Len(names) |-> [id |-> UserId(names[i]), username |-> names[i]]]

\* the result of the bulk create with ignore_conflicts: the users submitted, or
\* those among them that the tenant did not hold
BulkResult(policy, users, held) ==
    LET names == DistinctUsernames(users, IF policy = "new" THEN held ELSE {}) IN
    [i \in 1..Len(names) |->
       [id |-> UserId(names[i]),
        username |-> IF policy = "canonical" THEN Canon(names[i]) ELSE names[i]]]

\* lines 328-330 and create_users (270-273): the users are created in one call
ImportCreateUsers ==
    /\ cmd = "importusers"
    /\ pc = "create_users"
    /\ \E status \in {HttpOk, HttpError} :
         /\ calls' = Append(calls, Call("create_users", status))
         /\ IF status # HttpOk
            THEN /\ Raise("APIError")
                 /\ api_errors' = api_errors + 1
                 /\ UNCHANGED <<remote_users, new_users_response, assoc_idx, imp_out>>
            ELSE /\ remote_users' =
                      remote_users \cup {new_users[i].username : i \in 1..Len(new_users)}
                 /\ new_users_response' = BulkResult(bulk_policy, new_users, remote_users)
                 /\ imp_out' = Append(imp_out, [users |-> Len(new_users_response')])
                 /\ assoc_idx' = 1
                 /\ pc' = "associate"
                 /\ UNCHANGED <<exit_code, exc, api_errors>>
    /\ UNCHANGED <<conc_vars, ev_vars, lu_vars, inv_vars, remote_groups, remote_assoc, bulk_policy,
                   cmd, conf_vars, cfg, stderr, csv, run, new_users, scanned_groups,
                   user_groupname_map, groups_map, reverse_groups_map, pending,
                   count_group_added, count_group_existing, listed, create_calls,
                   assoc_calls, prev_run>>

\* lines 333-335 and associate_users_to_group (275-277): one user of the result
\* is associated to its group
ImportAssociate ==
    /\ cmd = "importusers"
    /\ pc = "associate"
    /\ assoc_idx <= Len(new_users_response)
    /\ LET new_user == new_users_response[assoc_idx] IN
       IF new_user.username \notin DOMAIN user_groupname_map
       THEN /\ Raise("KeyError")
            /\ UNCHANGED <<api_errors, remote_assoc, assoc_calls, calls, assoc_idx>>
       ELSE IF user_groupname_map[new_user.username] \notin DOMAIN reverse_groups_map
       THEN /\ Raise("KeyError")
            /\ UNCHANGED <<api_errors, remote_assoc, assoc_calls, calls, assoc_idx>>
       ELSE LET gid == reverse_groups_map[user_groupname_map[new_user.username]] IN
            /\ assoc_calls' = Append(assoc_calls, [users |-> <<new_user.id>>, group |-> gid])
            /\ \E status \in {HttpOk, HttpError} :
                 /\ calls' = Append(calls, Call("associate", status))
                 /\ IF status # HttpOk
                    THEN /\ Raise("APIError")
                         /\ api_errors' = api_errors + 1
                         /\ UNCHANGED <<remote_assoc, assoc_idx>>
                    ELSE /\ remote_assoc' = remote_assoc \cup {<<new_user.id, gid>>}
                         /\ assoc_idx' = assoc_idx + 1
                         /\ UNCHANGED <<pc, exit_code, exc, api_errors>>
    /\ UNCHANGED <<conc_vars, ev_vars, lu_vars, inv_vars, remote_groups, remote_users, bulk_policy,
                   cmd, conf_vars, cfg, stderr, csv, run, new_users, scanned_groups,
                   user_groupname_map, groups_map, reverse_groups_map, pending,
                   count_group_added, count_group_existing, new_users_response, imp_out,
                   listed, create_calls, prev_run>>

\* line 333 and the return to main.run: the import completes
ImportFinish ==
    /\ cmd = "importusers"
    /\ pc = "associate"
    /\ assoc_idx > Len(new_users_response)
    /\ pc' = "done"
    /\ exit_code' = Some(0)
    /\ UNCHANGED <<conc_vars, ev_vars, lu_vars, inv_vars, tenant_vars, imp_vars, cmd, conf_vars, cfg, exc,
                   api_errors, stderr>>

\* The command is run a second time with the same file, once the first run ended.
ImportAgain ==
    /\ cmd = "importusers"
    /\ pc \in {"done", "crashed", "exited"}
    /\ run = 1
    /\ run' = 2
    /\ prev_run' = Some([groups |-> remote_groups, assoc |-> remote_assoc,
                         users |-> remote_users, created |-> create_calls,
                         calls |-> calls,
                         completed |-> pc = "done", api_errors |-> api_errors])
    /\ pc' = "start"
    /\ exit_code' = None
    /\ exc' = "none"
    /\ api_errors' = 0
    /\ stderr' = <<>>
    /\ new_users' = <<>>
    /\ scanned_groups' = {}
    /\ user_groupname_map' = EmptyMap
    /\ groups_map' = EmptyMap
    /\ reverse_groups_map' = EmptyMap
    /\ pending' = {}
    /\ count_group_added' = 0
    /\ count_group_existing' = 0
    /\ new_users_response' = <<>>
    /\ assoc_idx' = 1
    /\ imp_out' = <<>>
    /\ listed' = <<>>
    /\ create_calls' = <<>>
    /\ assoc_calls' = <<>>
    /\ calls' = <<>>
    /\ UNCHANGED <<conc_vars, ev_vars, lu_vars, inv_vars, tenant_vars, cmd, conf_vars, cfg, csv>>

ImportConfigs == [ignore_header : BOOLEAN, file : CsvPaths]

InitialRemoteGroups ==
    {[i \in 1..Len(names) |-> [id |-> i, name |-> names[i]]] :
       names \in UNION {[1..n -> CsvGroupNames] : n \in 0..MaxRemoteGroups}}

InitImport ==
    /\ cmd = "importusers"
    /\ ProcessStart
    /\ cfg \in ImportConfigs
    /\ EventIdle
    /\ ListIdle
    /\ InviteIdle
    /\ remote_groups \in InitialRemoteGroups
    /\ remote_users \in InitialRemoteUsers
    /\ remote_assoc = {}
    /\ bulk_policy \in BulkPolicies
    /\ csv \in (IF FileExists(cfg.file) THEN CsvFiles ELSE {<<>>})
    /\ run = 1
    /\ prev_run = None
    /\ ImportLocalsIdle
    /\ ConcIdle

NextImport ==
    \/ ImportParse
    \/ ImportListGroups
    \/ ImportGroup
    \/ ImportReport
    \/ ImportCreateUsers
    \/ ImportAssociate
    \/ ImportFinish
    \/ ImportAgain

SpecImport == InitImport /\ [][NextImport]_vars

(***************************************************************************)
(* Several import runs against one tenant: the group phase of             *)
(* import_users_from_csv (lines 310-325) of each process, interleaved at   *)
(* its remote calls.                                                       *)
(***************************************************************************)
\* the processes that import into the tenant
Runs == 1..NumRuns

\* the locals of a run after parsing a file that references the group names gs
Writer(gs) ==
    [pc |-> "list_groups", scanned_groups |-> gs, groups_map |-> EmptyMap,
     reverse_groups_map |-> EmptyMap, pending |-> {}, listed |-> <<>>, added |-> {}]

\* main.run: one invocation is one run; with a single writer an invocation is
\* made only when no other run is between its listing and its end
MayRun(p) ==
    \/ ~single_writer
    \/ \A q \in Runs \ {p} : writers[q].pc \in {"list_groups", "done", "crashed", "exited"}

\* lines 310-314 and list_groups (233-237) of run p
ConcListGroups ==
    /\ cmd = "importusers"
    /\ \E p \in Runs :
         /\ writers[p].pc = "list_groups"
         /\ MayRun(p)
         /\ \E status \in {HttpOk, HttpError} :
              IF status # HttpOk
              THEN writers' = [writers EXCEPT ![p].pc = "exited"]
              ELSE writers' = [writers EXCEPT
                                 ![p].listed = remote_groups,
                                 ![p].groups_map = GroupsMap(remote_groups),
                                 ![p].reverse_groups_map = ReverseGroupsMap(remote_groups),
                                 ![p].pending = writers[p].scanned_groups,
                                 ![p].pc = "groups"]
    /\ UNCHANGED <<cmd, conf_vars, single_writer, pc, exit_code, exc, api_errors, cfg, stderr,
                   ev_vars, lu_vars, inv_vars, tenant_vars, imp_vars>>

\* lines 315-323 and create_group (262-268) of run p: one group of its file
ConcGroup ==
    /\ cmd = "importusers"
    /\ \E p \in Runs :
         /\ writers[p].pc = "groups"
         /\ \E g \in writers[p].pending :
              IF GroupKnown(g, writers[p].groups_map)
              THEN /\ writers' = [writers EXCEPT ![p].pending = @ \ {g}]
                   /\ UNCHANGED remote_groups
              ELSE \E status \in {HttpOk, HttpError} :
                     IF status # HttpOk
                     THEN /\ writers' = [writers EXCEPT ![p].pending = @ \ {g},
                                                        ![p].pc = "crashed"]
                          /\ UNCHANGED remote_groups
                     ELSE LET r == [id |-> FreshGroupId(remote_groups), name |-> g] IN
                          /\ remote_groups' = Append(remote_groups, r)
                          /\ writers' = [writers EXCEPT
                               ![p].pending = @ \ {g},
                               ![p].groups_map = DictSet(@, r.id, r.name),
                               ![p].reverse_groups_map = DictSet(@, r.name, r.id),
                               ![p].added = @ \cup {r.id}]
    /\ UNCHANGED <<cmd, conf_vars, single_writer, pc, exit_code, exc, api_errors, cfg, stderr,
                   ev_vars, lu_vars, inv_vars, remote_users, remote_assoc, bulk_policy,
                   imp_vars>>

\* lines 324-325 of run p: the group phase is over; the later phases create no
\* group
ConcReport ==
    /\ cmd = "importusers"
    /\ \E p \in Runs :
         /\ writers[p].pc = "groups"
         /\ GroupsPhaseDone(writers[p].pending)
         /\ writers' = [writers EXCEPT ![p].pc = "done"]
    /\ UNCHANGED <<cmd, conf_vars, single_writer, pc, exit_code, exc, api_errors, cfg, stderr,
                   ev_vars, lu_vars, inv_vars, tenant_vars, imp_vars>>

InitConcurrent ==
    /\ cmd = "importusers"
    /\ ProcessStart
    /\ cfg = [ignore_header |-> FALSE, file |-> "users.csv"]
    /\ EventIdle
    /\ ListIdle
    /\ InviteIdle
    /\ remote_groups \in InitialRemoteGroups
    /\ remote_users = {}
    /\ remote_assoc = {}
    /\ bulk_policy = "all"
    /\ csv = <<>>
    /\ run = 1
    /\ prev_run = None
    /\ ImportLocalsIdle
    /\ writers \in [Runs -> {Writer(gs) : gs \in SUBSET CsvGroupNames \ {{}}}]
    /\ single_writer \in BOOLEAN

NextConcurrent ==
    \/ ConcListGroups
    \/ ConcGroup
    \/ ConcReport

SpecConcurrent == InitConcurrent /\ [][NextConcurrent]_vars

(***************************************************************************)
(* MFAConfig.__init__ and main.run                                         *)
(***************************************************************************)
\* the commands argparse accepts: none, or a command with its action
Commands ==
    {"none", "version", "info", "event", "users", "users_invite", "users_list",
     "importusers"}

\* the section names of the credentials file and of the command line
SectionNames == {"default", "mfa", "prod"}

\* --section/-c, None when not given
SectionOpts == {None, Some("mfa")}

\* $AKAMAI_EDGERC_SECTION, None when not set
EnvSectionOpts == {None, Some("prod")}

\* the sections the credentials file may hold; none when the file is missing
EdgercFiles == SUBSET SectionNames

\* config.py lines 108-110: the option, else the environment, else "default"
Section(c) ==
    IF c.section # None
    THEN c.section[1]
    ELSE IF c.env_section # None THEN c.env_section[1] ELSE "default"

\* a slip of config.py line 128: the section is taken to be there
HasSection_always(sections, name) == TRUE

\* config.py line 128: edgerc_config.has_section(self.section)
HasSection(sections, name) == name \in sections

\* config.py lines 125-132: the credentials are loaded, or the process exits
\* with the message on the error stream (sys.exit(err_msg): exit code 1)
ConfigLoad ==
    /\ pc = "config"
    /\ IF ~HasSection(edgerc, Section(cfg))
       THEN /\ stderr' = Append(stderr, <<"ERROR: No section", Section(cfg)>>)
            /\ pc' = "exited"
            /\ exit_code' = Some(1)
       ELSE /\ pc' = "dispatch"
            /\ UNCHANGED <<stderr, exit_code>>
    /\ UNCHANGED <<conc_vars, cmd, conf_vars, cfg, exc, api_errors, ev_vars, lu_vars, inv_vars,
                   tenant_vars, imp_vars>>

\* main.run lines 31-57: the command is dispatched
Dispatch ==
    /\ pc = "dispatch"
    /\ CASE cmd = "none" ->
              /\ stdout' = Append(stdout, "help")
              /\ pc' = "exited"
              /\ exit_code' = Some(1)
              /\ UNCHANGED stderr
         [] cmd = "version" ->
              /\ stdout' = Append(stdout, "version")
              /\ pc' = "exited"
              /\ exit_code' = Some(0)
              /\ UNCHANGED stderr
         [] cmd = "info" ->
              /\ stdout' = Append(stdout, "info")
              /\ pc' = "done"
              /\ exit_code' = Some(0)
              /\ UNCHANGED stderr
         [] cmd = "users" ->
              /\ stderr' = Append(stderr, "not supported")
              /\ pc' = "exited"
              /\ exit_code' = Some(1)
              /\ UNCHANGED stdout
         [] OTHER ->
              /\ pc' = "start"
              /\ UNCHANGED <<stdout, stderr, exit_code>>
    /\ UNCHANGED <<conc_vars, cmd, edgerc, cfg, exc, api_errors, ev_vars, lu_vars, inv_vars,
                   tenant_vars, imp_vars>>

\* the command line: the section option and the environment, and the options
\* of "users list" and "users invite"
RunConfigs ==
    [section : SectionOpts, env_section : EnvSectionOpts, json : {FALSE},
     group : {Some("A")}]

InitConfig ==
    /\ cmd \in Commands
    /\ pc = "config"
    /\ exit_code = None
    /\ exc = "none"
    /\ api_errors = 0
    /\ stderr = <<>>
    /\ stdout = <<>>
    /\ now \in ClockStarts
    /\ cfg \in RunConfigs
    /\ edgerc \in EdgercFiles
    /\ EventIdle
    /\ ListIdle
    /\ InviteIdle
    /\ TenantIdle
    /\ ImportIdle

NextConfig ==
    \/ ConfigLoad
    \/ Dispatch
    \/ ListPage
    \/ ListFinish
    \/ InviteCheck
    \/ InviteLookup
    \/ InviteNotFound
    \/ InviteSend

SpecConfig == InitConfig /\ [][NextConfig]_vars

(***************************************************************************)
(* Claims about EventAPI.pull_events, checked under SpecEvent.             *)
(***************************************************************************)

\* The tail branch (lines 200-205) of the polling cycle that fetched the current
\* window has run, and no later cycle has begun.
AfterTailBranch ==
    /\ cmd = "event"
    /\ cfg.tail
    /\ cycle >= 1
    /\ \/ pc = "cycle"
       \/ pc = "crashed" /\ exc \notin {"APIError", "KeyError"}

\* C1: in tail mode the window start ('after') of every polling cycle after the
\* first equals exactly the window end ('before') of the cycle before it: once
\* the tail branch of a cycle has run, the window start the engine holds is the
\* 'before' of that cycle's requests, and a later cycle requests it as 'after'.
C1_WindowStitching ==
    cmd = "event" =>
      /\ prev_params # None => params.after = prev_params[1].before
      /\ AfterTailBranch => isoformat(scan_start) = params.before

\* The last response of the current window carried no (true) continuation token
\* and its events have been gone through.
WindowServed ==
    /\ cmd = "event"
    /\ Len(pages) > 0
    /\ ~TruthyStr(continuation_token)
    /\ pc # "emit"

\* C2: the page loop ends exactly when a response omits the continuation token: a
\* further page request follows every response that carries a token, and none
\* follows the first response of the cycle that carries none.
C2_PageLoopEndsOnMissingToken ==
    cmd = "event" =>
      /\ (pc = "post" /\ Len(pages) > 0) => TruthyStr(continuation_token)
      /\ (pc \in {"cycle_end", "done"} \/ (pc = "crashed" /\ exc # "APIError"))
            => ~TruthyStr(continuation_token)

\* C3: a window served as N pages of K events each is emitted as exactly N*K
\* events, in the order of the pages and of the events in each page, each once.
C3_ExactlyOnceEmission ==
    WindowServed =>
      \A K \in 0..(MaxEvents + 1) :
        (\A i \in 1..Len(pages) : pages[i] = K) =>
          /\ Len(emitted) = Len(pages) * K
          /\ \A i \in 1..Len(emitted) : emitted[i].id = served[i].id

\* C4: with noreceipt no emitted record has a 'receipt' field; without it every
\* emitted record is the served event unmodified; in both cases every other
\* field of the event is emitted unchanged.
C4_ReceiptStripping ==
    cmd = "event" =>
      /\ Len(emitted) <= Len(served)
      /\ \A i \in 1..Len(emitted) :
           /\ cfg.noreceipt => "receipt" \notin DOMAIN emitted[i]
           /\ ~cfg.noreceipt => emitted[i] = served[i]
           /\ DOMAIN emitted[i] \subseteq DOMAIN served[i]
           /\ \A f \in DOMAIN served[i] \ {"receipt"} :
                f \in DOMAIN emitted[i] /\ emitted[i][f] = served[i][f]

\* C4 witness: with noreceipt, two events that came with a receipt were emitted.
C4_Witness ==
    /\ cmd = "event"
    /\ cfg.noreceipt
    /\ Len(emitted) = 2
    /\ "receipt" \in DOMAIN served[1]
    /\ "receipt" \in DOMAIN served[2]
    /\ "receipt" \notin DOMAIN emitted[1]

\* C9: without tail and without API error the export runs exactly one polling
\* cycle, sleeps never, never advances the window, and ends with exit code 0 once
\* the window is exhausted.
C9_NonTailExportExitsZero ==
    (cmd = "event" /\ ~cfg.tail /\ api_errors = 0) =>
      /\ cycle <= 1
      /\ sleeps = 0
      /\ wait = None
      /\ exit_code # None => (exit_code = Some(0) /\ WindowServed)

\* C10: with tail and without API error, once a window is exhausted the export
\* goes on to a further polling cycle: the process never ends.
C10_TailExportNeverEnds ==
    (cmd = "event" /\ cfg.tail /\ api_errors = 0) => exit_code = None

\* C21: at the end of every tail cycle the engine requests a sleep of
\* max(0, pull_interval - elapsed): the requested duration exists and is never
\* negative, and the engine goes on to the next cycle without error.
C21_TailPacing ==
    AfterTailBranch =>
      /\ wait # None
      /\ wait[1] >= 0
      /\ sleeps >= 1
      /\ pc = "cycle"
      /\ exc = "none"

\* the instant of an isoformat() text, in ticks
IsoTicks(iso) == iso[1] * TicksPerSec + (IF Len(iso) = 2 THEN iso[2] ELSE 0)

\* C22: every page request the engine issues carries a window with
\* after <= before, whatever --start and --end were given.
C22_WindowInvariant ==
    cmd = "event" =>
      \A i \in 1..Len(ev_requests) :
        IsoTicks(ev_requests[i].params.after) <= IsoTicks(ev_requests[i].params.before)

\* C23: within one polling cycle every page request carries the same window;
\* the first request of a cycle carries no continuation token and every later
\* one carries exactly the token of the response just before it.
C23_TokenThreading ==
    cmd = "event" =>
      \A i \in 1..Len(ev_requests) :
        IF i = 1 \/ ev_requests[i - 1].cycle # ev_requests[i].cycle
        THEN ev_requests[i].payload = None
        ELSE /\ ev_requests[i].params = ev_requests[i - 1].params
             /\ ev_requests[i].payload # None
             /\ ev_requests[i].payload = ev_requests[i - 1].token

\* C23 witness: the second page of a window was requested with the token the
\* first response carried, and answered.
C23_Witness ==
    /\ cmd = "event"
    /\ Len(ev_requests) = 2
    /\ ev_requests[1].token = Some(PageToken(1))
    /\ ev_requests[2].payload = Some(PageToken(1))
    /\ ev_requests[2].status = HttpOk

\* C28: with noreceipt an event the source returns without a 'receipt' field is
\* emitted unchanged, the option never makes the run fail, and once the window
\* is exhausted every event the source returned has been emitted.
C28_EventsWithoutReceipt ==
    (cmd = "event" /\ cfg.noreceipt) =>
      /\ exc # "KeyError"
      /\ \A i \in 1..Len(emitted) :
           "receipt" \notin DOMAIN served[i] => emitted[i] = served[i]
      /\ (api_errors = 0 /\ pc \notin {"start", "cycle", "post", "emit"}) =>
           Len(emitted) = Len(served)

\* C14: a page fetch of pull_events that returns a non-success status ends the
\* run in failure with exit code 1; the events of the earlier pages have been
\* emitted and stay so, and no request (retry, later page or later cycle) and
\* no event follows.
C14_NoRetryInEventExport ==
    /\ [](( cmd = "event" /\ api_errors > 0) =>
            /\ api_errors = 1
            /\ pc = "crashed"
            /\ exc = "APIError"
            /\ exit_code = Some(1)
            /\ Len(emitted) = Len(served)
            /\ \A i \in 1..Len(emitted) : emitted[i].id = served[i].id)
    /\ [][(cmd = "event" /\ api_errors > 0) =>
            /\ api_errors' = api_errors
            /\ pages' = pages
            /\ served' = served
            /\ emitted' = emitted
            /\ cycle' = cycle
            /\ sleeps' = sleeps
            /\ exit_code' = exit_code]_vars

\* C14 witness: the second page fetch of a window failed after the event of the
\* first page was emitted.
C14_Witness ==
    /\ cmd = "event"
    /\ api_errors = 1
    /\ pc = "crashed"
    /\ pages = <<1>>
    /\ Len(emitted) = 1
    /\ TruthyStr(continuation_token)

(***************************************************************************)
(* Claims about import_users_from_csv, checked under SpecImport.           *)
(***************************************************************************)

\* C5: a second import of the same file, run after a first one that met no API
\* error, leaves the group catalog and the user-to-group associations of the tenant as
\* the first run left them, and issues no create-group call.
C5_ImportIdempotent ==
    (cmd = "importusers" /\ run = 2 /\ prev_run # None /\ prev_run[1].api_errors = 0) =>
      /\ create_calls = <<>>
      /\ remote_groups = prev_run[1].groups
      /\ remote_assoc = prev_run[1].assoc

\* C5 witness: the first run created a group and associated a user, and the
\* second run completed after an association call of its own.
C5_Witness ==
    /\ cmd = "importusers"
    /\ run = 2
    /\ pc = "done"
    /\ prev_run # None
    /\ prev_run[1].completed
    /\ prev_run[1].created # <<>>
    /\ prev_run[1].assoc # {}
    /\ assoc_calls # <<>>

\* the positions of the rows of the file read as data
DataPositions == (IF cfg.ignore_header THEN 2 ELSE 1)..Len(csv)

\* the distinct group names of the data rows of the file
CsvGroups == {csv[i][5] : i \in {j \in DataPositions : Len(csv[j]) >= 5}}

\* the names of the groups the listing returned
ListedNames == {listed[i].name : i \in 1..Len(listed)}

\* C6: the report counts as added the distinct group names of the file absent
\* from the group listing and as existing those present in it; one create-group
\* call is issued per added group and none for an existing one.
C6_GroupCreationCount ==
    cmd = "importusers" =>
      /\ \A i \in 1..Len(create_calls) : create_calls[i] \in CsvGroups \ ListedNames
      /\ \A i, j \in 1..Len(create_calls) : create_calls[i] = create_calls[j] => i = j
      /\ \A i \in 1..Len(imp_out) :
           "added" \in DOMAIN imp_out[i] =>
             /\ imp_out[i].added = Cardinality(CsvGroups \ ListedNames)
             /\ imp_out[i].existing = Cardinality(CsvGroups \cap ListedNames)
             /\ Len(create_calls) = imp_out[i].added
             /\ {create_calls[k] : k \in 1..Len(create_calls)} = CsvGroups \ ListedNames

\* C6 witness: the file names groups A and B, A is listed and B is not, and the
\* report says 1 added, 1 existing.
C6_Witness ==
    /\ cmd = "importusers"
    /\ CsvGroups = {"A", "B"}
    /\ ListedNames = {"A"}
    /\ imp_out # <<>>
    /\ imp_out[1] = [added |-> 1, existing |-> 1]
    /\ create_calls = <<"B">>

\* the place of a remote call in the order of the phases of the import
PhaseRank(op) ==
    CASE op = "list_groups" -> 1
      [] op = "create_group" -> 2
      [] op = "create_users" -> 3
      [] op = "associate" -> 4

\* the positions of the calls of an operation in the history
CallsOf(op) == {i \in 1..Len(calls) : calls[i].op = op}

\* C11: the remote calls of one import occur in the order list groups, create
\* groups, bulk create users, associate; parsing makes no call, no group is
\* created before the listing, the bulk create is issued once and only after
\* every missing group was created, and no association precedes its return.
C11_ImportPhaseOrdering ==
    cmd = "importusers" =>
      /\ pc = "start" => calls = <<>>
      /\ calls # <<>> => calls[1].op = "list_groups"
      /\ \A i, j \in 1..Len(calls) :
           i < j => PhaseRank(calls[i].op) <= PhaseRank(calls[j].op)
      /\ Cardinality(CallsOf("list_groups")) <= 1
      /\ Cardinality(CallsOf("create_users")) <= 1
      /\ \A i \in CallsOf("create_users") :
           /\ \A j \in 1..(i - 1) : calls[j].ok
           /\ Cardinality({j \in CallsOf("create_group") : j < i})
                = Cardinality(CsvGroups \ ListedNames)
      /\ \A i \in CallsOf("associate") :
           \E j \in CallsOf("create_users") : j < i /\ calls[j].ok

\* C11 witness: an import that listed the groups, created one, created the users
\* and associated two of them, in that order.
C11_Witness ==
    /\ cmd = "importusers"
    /\ pc = "done"
    /\ Len(calls) = 5
    /\ calls[1].op = "list_groups"
    /\ calls[2].op = "create_group"
    /\ calls[3].op = "create_users"
    /\ calls[4].op = "associate"
    /\ calls[5].op = "associate"

\* nothing was asked of the provider and the tenant is as it was
NoRemoteCall ==
    /\ calls = <<>>
    /\ listed = <<>>
    /\ create_calls = <<>>
    /\ assoc_calls = <<>>
    /\ api_errors = 0
    /\ run = 1 => remote_assoc = {}
    /\ (run = 2 /\ prev_run # None) =>
         /\ remote_groups = prev_run[1].groups
         /\ remote_users = prev_run[1].users
         /\ remote_assoc = prev_run[1].assoc

\* C12 as stated: a row of fewer than five columns at any position of the file
\* makes the import fail before any remote call.
C12_AnyShortRowFails ==
    (cmd = "importusers" /\ FileExists(cfg.file)
       /\ \E i \in 1..Len(csv) : Len(csv[i]) < 5) =>
      /\ NoRemoteCall
      /\ pc \in {"start", "crashed"}

\* C12 amended: a row of fewer than five columns among the rows read as data
\* (every row, but the first one when --ignore-header skips it unread) makes
\* the import fail with IndexError before any remote call.
C12_ShortDataRowFails ==
    (cmd = "importusers" /\ FileExists(cfg.file)
       /\ \E i \in DataPositions : Len(csv[i]) < 5) =>
      /\ NoRemoteCall
      /\ pc \in {"start", "crashed"}
      /\ pc = "crashed" => (exc = "IndexError" /\ exit_code = Some(1))

\* C12 witness: the last of two data rows is short, the first is complete, and
\* the import has failed without a call.
C12_Witness ==
    /\ cmd = "importusers"
    /\ ~cfg.ignore_header
    /\ Len(csv) = 2
    /\ Len(csv[1]) = 5
    /\ Len(csv[2]) < 5
    /\ pc = "crashed"
    /\ exc = "IndexError"
    /\ calls = <<>>

\* the bulk create of this run has returned its result
BulkCreateReturned == \E i \in CallsOf("create_users") : calls[i].ok

\* C13: one association call per user of the bulk-create result, in order, with
\* that user's id alone and the id the catalog gives the group of its username;
\* as many calls as returned users once the import completes; and no result of
\* the provider makes the import fail.
C13_AssociationPhase ==
    (cmd = "importusers" /\ BulkCreateReturned) =>
      /\ Len(assoc_calls) <= Len(new_users_response)
      /\ \A i \in 1..Len(assoc_calls) :
           /\ assoc_calls[i].users = <<new_users_response[i].id>>
           /\ assoc_calls[i].group =
                reverse_groups_map[user_groupname_map[new_users_response[i].username]]
      /\ pc = "done" => Len(assoc_calls) = Len(new_users_response)
      /\ pc = "crashed" => exc = "APIError"

\* the rank of a call among the calls of its operation
NthOf(op, i) == Cardinality({j \in CallsOf(op) : j <= i})

\* C15: a failed remote call of the import is its last call and ends the
\* process with exit code 1; what the calls before it created (groups, users,
\* associations) remains in the tenant.
C15_ImportAbortWithoutRollback ==
    cmd = "importusers" =>
      /\ api_errors <= 1
      /\ \A i \in 1..Len(calls) :
           ~calls[i].ok =>
             /\ i = Len(calls)
             /\ api_errors = 1
             /\ pc \in {"crashed", "exited"}
             /\ exit_code = Some(1)
      /\ \A i \in CallsOf("create_group") :
           calls[i].ok =>
             \E g \in 1..Len(remote_groups) :
               remote_groups[g].name = create_calls[NthOf("create_group", i)]
      /\ \A i \in CallsOf("create_users") :
           calls[i].ok => \A r \in DataPositions : csv[r][4] \in remote_users
      /\ \A i \in CallsOf("associate") :
           calls[i].ok =>
             LET a == assoc_calls[NthOf("associate", i)] IN
             <<a.users[1], a.group>> \in remote_assoc

\* C15 witness: the second association failed; the group created, the users
\* created and the first association are still in the tenant.
C15_Witness ==
    /\ cmd = "importusers"
    /\ run = 1
    /\ pc = "crashed"
    /\ exc = "APIError"
    /\ Len(calls) = 5
    /\ calls[2].op = "create_group"
    /\ calls[5].op = "associate"
    /\ ~calls[5].ok
    /\ Cardinality(remote_assoc) = 1
    /\ \E g \in 1..Len(remote_groups) : remote_groups[g].name = create_calls[1]
    /\ \A r \in DataPositions : csv[r][4] \in remote_users

\* C17: when the file of importusers cannot be opened the process ends with
\* exit code 1 (FileNotFoundError) and no remote call has been issued.
C17_UnreadableCsv ==
    (cmd = "importusers" /\ cfg.file = "csv_file_not_exist") =>
      /\ NoRemoteCall
      /\ pc \in {"start", "crashed"}
      /\ pc = "crashed" =>
           /\ exc = "FileNotFoundError"
           /\ exit_code # None
           /\ exit_code[1] > 0

\* C17 witness: the import of a path that names no file has ended.
C17_Witness ==
    /\ cmd = "importusers"
    /\ cfg.file = "csv_file_not_exist"
    /\ pc = "crashed"
    /\ exc = "FileNotFoundError"
    /\ exit_code = Some(1)
    /\ calls = <<>>

\* the groups of a list that carry a name
GroupsNamed(groups, g) == {i \in 1..Len(groups) : groups[i].name = g}

\* C24: when the first association call is issued, every group name the file
\* references resolves to exactly one group id: the catalog holds the name and
\* the tenant has one group of that name, not several of which one is picked.
C24_GroupCatalogInvariant ==
    (cmd = "importusers" /\ Len(assoc_calls) >= 1) =>
      \A g \in CsvGroups :
        /\ g \in DOMAIN reverse_groups_map
        /\ Cardinality(GroupsNamed(remote_groups, g)) = 1

\* the groups the tenant held before the first of two runs: those of the end of
\* the first run without the ones its create-group calls added
GroupsBeforeFirstRun ==
    LET prev == prev_run[1]
        added == Cardinality({i \in 1..Len(prev.calls) :
                               prev.calls[i].op = "create_group" /\ prev.calls[i].ok})
    IN  SubSeq(prev.groups, 1, Len(prev.groups) - added)

\* the group the file gives a username: that of its last data row
CsvGroupOf(u) ==
    LET rows == {i \in DataPositions : csv[i][4] = u}
        last == CHOOSE i \in rows : \A j \in rows : j <= i
    IN  csv[last][5]

\* the usernames of the data rows of the file
CsvUsers == {csv[i][4] : i \in DataPositions}

\* the bulk create answers with every submitted user, held before or not
ConflictTolerantUpsert == bulk_policy \in {"all", "canonical"}

CreatedTwice(g) ==
    \E p, q \in Runs :
      /\ p # q
      /\ \E i \in writers[p].added, j \in writers[q].added :
           remote_groups[i].name = g /\ remote_groups[j].name = g

\* C26: two runs create a group of the same name only when each listed the
\* groups before the other created its group of that name; runs that take
\* place one at a time never do.
C26_ConcurrentImports ==
    (cmd = "importusers" /\ writers # <<>>) =>
      /\ single_writer => \A g \in CsvGroupNames : ~CreatedTwice(g)
      /\ \A p, q \in Runs :
           \A i \in writers[p].added, j \in writers[q].added :
             (p # q /\ remote_groups[i].name = remote_groups[j].name) =>
               /\ i > Len(writers[q].listed)
               /\ j > Len(writers[p].listed)
      /\ \A p \in Runs :
           \A i, j \in writers[p].added :
             remote_groups[i].name = remote_groups[j].name => i = j

\* C26 witness: without the single-writer discipline two runs that both listed
\* an empty tenant each created the group "A", and both completed: the tenant
\* holds two groups named "A".
C26_Witness ==
    /\ cmd = "importusers"
    /\ writers # <<>>
    /\ ~single_writer
    /\ CreatedTwice("A")
    /\ \A p \in {1, 2} : writers[p].pc = "done" /\ writers[p].listed = <<>>
    /\ Cardinality(GroupsNamed(remote_groups, "A")) >= 2

(***************************************************************************)
(* Claims about list_users, checked under SpecList.                        *)
(***************************************************************************)

\* C7: when every response reports the same totalPages = N >= 1, the listing
\* requests exactly the pages 1..N and prints every returned user once.
C7_ListingPaginationBound ==
    cmd = "users_list" =>
      \A N \in 1..MaxTotalPages :
        lu_totals = {Some(N)} =>
          /\ Len(lu_requests) <= N
          /\ \A i \in 1..Len(lu_requests) : lu_requests[i] = i
          /\ pc = "done" => Len(lu_requests) = N
          /\ Len(lu_out) = Len(lu_served) + (IF pc = "done" THEN 1 ELSE 0)
          /\ \A i \in 1..Len(lu_served) : lu_out[i] = FlatLine(lu_served[i])

\* C7 witness: three responses reported totalPages = 3, three pages were
\* requested and the listing completed with users printed.
C7_Witness ==
    /\ cmd = "users_list"
    /\ pc = "done"
    /\ lu_totals = {Some(3)}
    /\ lu_requests = <<1, 2, 3>>
    /\ Len(lu_served) >= 3

\* totalPages a response reports, 1 when it has none
ReportedPages(tp) == IF tp = None THEN 1 ELSE tp[1]

\* C27: the listing requests page 1 first and page numbers consecutively; after
\* a response it requests the next page if and only if that page number is <=
\* the totalPages of that response (1 when it has none): it completes only when
\* the next page number exceeds it, a first response reporting 0 pages costs one
\* request, and the scan is no longer than the largest totalPages reported.
C27_ListingLoopRule ==
    /\ [](cmd = "users_list" =>
            /\ \A i \in 1..Len(lu_requests) : lu_requests[i] = i
            /\ Len(lu_reported) <= Len(lu_requests)
            /\ Len(lu_requests) <= Len(lu_reported) + 1
            /\ Len(lu_requests) <= MaxTotalPages
            /\ pc = "done" =>
                 /\ Len(lu_requests) >= 1
                 /\ Len(lu_reported) = Len(lu_requests)
                 /\ Len(lu_requests) + 1 > ReportedPages(lu_reported[Len(lu_reported)])
            /\ (Len(lu_reported) >= 1 /\ lu_reported[1] = Some(0)) => Len(lu_requests) = 1)
    /\ [][(cmd = "users_list" /\ lu_requests' # lu_requests /\ Len(lu_requests) >= 1) =>
            /\ Len(lu_reported) = Len(lu_requests)
            /\ Len(lu_requests) + 1 <= ReportedPages(lu_reported[Len(lu_reported)])]_vars

\* C27 witness: the first response reported 3 pages, the second reported 1: the
\* scan ended after two requests.
C27_Witness ==
    /\ cmd = "users_list"
    /\ pc = "done"
    /\ lu_reported = <<Some(3), Some(1)>>
    /\ lu_requests = <<1, 2>>

(***************************************************************************)
(* Claims about group_id, checked under SpecInvite.                        *)
(***************************************************************************)

\* the positions of the listing whose group has exactly the name asked for
ExactMatches == {i \in 1..Len(matches) : matches[i].name = cfg.group[1]}

\* C8: two or more groups of exactly the name asked for make group_id raise and
\* return no id; exactly one makes it return that group's id; none (partial
\* matches or not) makes it return None.
C8_AmbiguousGroupLookup ==
    (cmd = "users_invite" /\ gid_answered) =>
      /\ Cardinality(ExactMatches) >= 2 =>
           (pc = "crashed" /\ exc = "Ambiguity" /\ group_id = None)
      /\ Cardinality(ExactMatches) = 1 =>
           (exc # "Ambiguity" /\ \A i \in ExactMatches : group_id = Some(matches[i].id))
      /\ Cardinality(ExactMatches) = 0 => (exc # "Ambiguity" /\ group_id = None)

\* C8 witness: the listing returned two groups named as asked and a partial
\* match, and the lookup raised.
C8_Witness ==
    /\ cmd = "users_invite"
    /\ gid_answered
    /\ cfg.group = Some("A")
    /\ Cardinality(ExactMatches) = 2
    /\ \E i \in 1..Len(matches) : matches[i].name = "AB"
    /\ exc = "Ambiguity"

\* C18: when no group of the listing has exactly the name asked for, the
\* condition is reported on the error stream, the process exits with code 2 and
\* no enrollment request is sent; when exactly one has, one enrollment request
\* is sent, for that group's id only and excluding the enrolled users.
C18_InviteUnknownGroup ==
    (cmd = "users_invite" /\ gid_answered) =>
      /\ Cardinality(ExactMatches) = 0 =>
           /\ enroll_requests = <<>>
           /\ pc \in {"resolved", "exited"}
           /\ pc = "resolved" => (exit_code = None /\ stderr = <<>>)
           /\ pc = "exited" =>
                /\ exit_code = Some(2)
                /\ stderr = <<<<"Group not found", cfg.group[1]>>>>
      /\ Cardinality(ExactMatches) = 1 =>
           /\ stderr = <<>>
           /\ exit_code # Some(2)
           /\ pc \in {"resolved", "done", "crashed"}
           /\ pc = "resolved" => enroll_requests = <<>>
           /\ pc \in {"done", "crashed"} =>
                \A i \in ExactMatches :
                  enroll_requests =
                    <<[exclude_enrolled_users |-> TRUE, groups |-> <<matches[i].id>>]>>

\* C18 witness: only a partial match was listed and the process has exited
\* with code 2 without an enrollment request.
C18_Witness ==
    /\ cmd = "users_invite"
    /\ gid_answered
    /\ cfg.group = Some("A")
    /\ \E i \in 1..Len(matches) : matches[i].name = "AB"
    /\ Cardinality(ExactMatches) = 0
    /\ pc = "exited"
    /\ exit_code = Some(2)
    /\ enroll_requests = <<>>

\* the trailing line of the listing
IsTotalLine(l) == Len(l) = 2 /\ l[1] = "# Total users exported"

\* C19: a listing that completes ends with exactly one total-count line, after
\* the last user record; its count is the number of user records streamed over
\* all the pages, zero included; no such line is printed before the end.
C19_ListingSummary ==
    cmd = "users_list" =>
      /\ pc = "done" =>
           /\ Len(lu_out) = Len(lu_served) + 1
           /\ lu_out[Len(lu_out)] = <<"# Total users exported", Len(lu_served)>>
      /\ \A i \in 1..Len(lu_out) : IsTotalLine(lu_out[i]) => (pc = "done" /\ i = Len(lu_out))

\* C19 witness: two pages of two users each were listed and the total line
\* says 4.
C19_Witness ==
    /\ cmd = "users_list"
    /\ pc = "done"
    /\ Len(lu_requests) = 2
    /\ Len(lu_served) = 4
    /\ Len(lu_out) = 5
    /\ lu_out[5] = <<"# Total users exported", 4>>

\* the listing printed nothing but the total line: zero users were returned
C19_ZeroUsers ==
    /\ cmd = "users_list"
    /\ pc = "done"
    /\ lu_out = <<<<"# Total users exported", 0>>>>

\* the i-th user line is the pretty-printed record
IsJsonLine(l) == Len(l) = 2 /\ l[1] = "json"

\* C20: with --json every user record is printed as pretty-printed JSON; without
\* it every record is printed as the flat projection id,username,status.
C20_ListingOutputFormat ==
    cmd = "users_list" =>
      \A i \in 1..Len(lu_served) :
        IF cfg.json
        THEN IsJsonLine(lu_out[i]) /\ lu_out[i][2] = lu_served[i]
        ELSE lu_out[i] = FlatLine(lu_served[i])

(***************************************************************************)
(* Claims about MFAConfig.__init__ and main.run, checked under SpecConfig. *)
(***************************************************************************)

\* C16: for every command, when the credentials file has no section of the
\* selected name the process prints 'ERROR: No section ...' on the error stream
\* and exits with code 1; no command is dispatched, nothing is printed on the
\* output stream and no remote call is attempted.
C16_MissingCredentialSection ==
    (Section(cfg) \notin edgerc) =>
      /\ pc \in {"config", "exited"}
      /\ pc = "config" => (exit_code = None /\ stderr = <<>>)
      /\ pc = "exited" =>
           /\ exit_code = Some(1)
           /\ stderr = <<<<"ERROR: No section", Section(cfg)>>>>
      /\ stdout = <<>>
      /\ api_errors = 0
      /\ lu_requests = <<>>
      /\ ~gid_answered
      /\ enroll_requests = <<>>

\* C16 witness: 'users list -c mfa' with a credentials file that holds only
\* [default] has exited with code 1 without a request.
C16_Witness ==
    /\ cmd = "users_list"
    /\ cfg.section = Some("mfa")
    /\ edgerc = {"default"}
    /\ pc = "exited"
    /\ exit_code = Some(1)
    /\ stderr = <<<<"ERROR: No section", "mfa">>>>
    /\ lu_requests = <<>>

====
